---------------------------- MODULE Spec2Model ----------------------------
(***************************************************************************)
(* Smart Task Analyzer: the scoring engine (backend/tasks/scoring.py), the *)
(* validation helpers (backend/tasks/utils.py), the request serializer     *)
(* (backend/tasks/serializers.py) and the analyze and suggest endpoints    *)
(* (backend/tasks/views.py).                                               *)
(*                                                                         *)
(* Specifications.  Spec: one analyze request; SpecSuggest: one suggest    *)
(* request; SpecDfs, SpecDfsFair: detect_circular_dependencies step by     *)
(* step; SpecUrgency, SpecUrgencyTable, SpecEffort, SpecImportance,        *)
(* SpecDependency, SpecCycles, SpecFinal, SpecValidate: one call of one    *)
(* function (pc = "call", then "returned"; arg the arguments, res the      *)
(* result).                                                                *)
(*                                                                         *)
(* Numbers.  Python floats are modelled by exact fixed-point integers:     *)
(*   - hours and importance ratings are counted in hundredths (150 = 1.5); *)
(*   - factor scores are counted in units of 1/100000 of a point           *)
(*     (Pt = one point), fine enough for every coefficient of the code     *)
(*     (0.375 per hour = 375 units per hundredth of an hour);              *)
(*   - the final score is counted in hundredths of a point (round(x, 2)).  *)
(*                                                                         *)
(* JSON values.  A field of a task dict is a record [k, v]: k is the kind  *)
(* of the Python value ("absent" = key not in the dict, "null" = None,     *)
(* "int", "float", "str" = a string that spells the number v, "badstr" =   *)
(* any other string, "date" = a string that spells a real calendar date in *)
(* YYYY-MM-DD form and lies v days after today, "list", "nonlist"), v its  *)
(* value.                                                                  *)
(***************************************************************************)
EXTENDS Integers, Sequences, FiniteSets, TLC

VARIABLES
  pc,               \* position in the operation under way
  tasks,            \* the request's task list (mutated by add_task_ids)
  strategy,         \* the request's strategy field
  all_warnings,     \* AnalyzeTasksView.post: all_warnings
  validated_tasks,  \* AnalyzeTasksView.post: validated_tasks
  has_cycles,       \* AnalyzeTasksView.post: has_cycles
  cycle_details,    \* AnalyzeTasksView.post: cycle_details (id paths)
  scored_tasks,     \* AnalyzeTasksView.post: scored_tasks
  response,         \* the Response returned, or the exception that escaped
  arg,              \* argument of the function under test
  res               \* its result

vars == <<pc, tasks, strategy, all_warnings, validated_tasks, has_cycles,
          cycle_details, scored_tasks, response, arg, res>>

reqVars == <<tasks, strategy, all_warnings, validated_tasks, has_cycles,
             cycle_details, scored_tasks, response>>

(***************************************************************************)
(* Bounds of the model.                                                    *)
(***************************************************************************)
MaxDays == 40
MaxHours == 25
MaxTasks == 3
MaxBatch == 3
MaxBlockers == 7
MaxRating == 20

\* one score point, in score units
Pt == 1000 * 100

Max(a, b) == IF a >= b THEN a ELSE b
Min(a, b) == IF a <= b THEN a ELSE b

V(kind, val) == [k |-> kind, v |-> val]
Absent == V("absent", 0)
Null == V("null", 0)

IsNumber(x) == x.k \in {"int", "float"}
IsString(x) == x.k \in {"str", "badstr", "date"}

\* a function's outcome: a (score, explanation) tuple, or an exception
Ret(s, e) == [raised |-> FALSE, score |-> s, exp |-> e]
Raise(e) == [raised |-> TRUE, score |-> 0, exp |-> e]

(***************************************************************************)
(* scoring.py: the four factor scores                                      *)
(***************************************************************************)

UrgencyMut(days_left) ==
  IF days_left < 0 THEN Ret(10 * Pt, "OVERDUE")
  ELSE IF days_left = 0 THEN Ret(9 * Pt, "Due TODAY")
  ELSE IF days_left <= 3 THEN Ret(8 * Pt - days_left * 30000, "High urgency")
  ELSE IF days_left <= 7 THEN Ret(7 * Pt - (days_left - 3) * 50000, "Medium urgency")
  ELSE IF days_left <= 14 THEN Ret(5 * Pt - (days_left - 7) * 30000, "Moderate urgency")
  ELSE Ret(Max(1 * Pt, 3 * Pt + (days_left - 14) * 10000), "Low urgency")

UrgencyTodayMut(days_left) ==
  IF days_left <= 0 THEN Ret(10 * Pt, "OVERDUE")
  ELSE IF days_left <= 3 THEN Ret(8 * Pt - days_left * 30000, "High urgency")
  ELSE IF days_left <= 7 THEN Ret(7 * Pt - (days_left - 3) * 50000, "Medium urgency")
  ELSE IF days_left <= 14 THEN Ret(5 * Pt - (days_left - 7) * 30000, "Moderate urgency")
  ELSE Ret(Max(1 * Pt, 3 * Pt - (days_left - 14) * 10000), "Low urgency")

\* the threshold table on days_left = (due_date - today).days
Urgency(days_left) ==
  IF days_left < 0 THEN Ret(10 * Pt, "OVERDUE")
  ELSE IF days_left = 0 THEN Ret(9 * Pt, "Due TODAY")
  ELSE IF days_left <= 3 THEN Ret(8 * Pt - days_left * 30000, "High urgency")
  ELSE IF days_left <= 7 THEN Ret(7 * Pt - (days_left - 3) * 50000, "Medium urgency")
  ELSE IF days_left <= 14 THEN Ret(5 * Pt - (days_left - 7) * 30000, "Moderate urgency")
  ELSE Ret(Max(1 * Pt, 3 * Pt - (days_left - 14) * 10000), "Low urgency")

\* calculate_urgency_score(due_date_str): a string is parsed with
\* strptime('%Y-%m-%d') (ValueError -> the default 5.0); any other value is
\* used as the date itself, and `due_date - today` raises TypeError for a
\* value that is not a date (None, a number, a list).
calculate_urgency_score(due_date) ==
  IF IsString(due_date)
  THEN IF due_date.k = "date" THEN Urgency(due_date.v)
       ELSE Ret(5 * Pt, "Invalid date format")
  ELSE Raise("TypeError")

\* calculate_importance_score(importance): `importance < 1` raises TypeError
\* for a str or None; a number in [1, 10] is returned as float(importance).
calculate_importance_score(importance) ==
  IF ~IsNumber(importance) THEN Raise("TypeError")
  ELSE IF importance.v < 100 \/ importance.v > 1000
       THEN Ret(5 * Pt, "Invalid importance")
       ELSE Ret(importance.v * 1000, "rated")

EffortMut(estimated_hours) ==
  IF ~IsNumber(estimated_hours) THEN Raise("TypeError")
  ELSE LET h == estimated_hours.v IN
    IF h <= 0 THEN Ret(5 * Pt, "Invalid estimated hours")
    ELSE IF h < 100 THEN Ret(10 * Pt, "Quick win")
    ELSE IF h <= 200 THEN Ret(9 * Pt - (h - 100) * 500, "Fast task")
    ELSE IF h <= 400 THEN Ret(75 * (Pt \div 10) - (h - 200) * 750, "Moderate task")
    ELSE IF h <= 800 THEN Ret(45 * (Pt \div 10) - (h - 400) * 375, "Substantial task")
    ELSE Ret(Max(1 * Pt, 4 * Pt - (h - 800) * 200), "Large task")

EffortLargeMut(estimated_hours) ==
  IF ~IsNumber(estimated_hours) THEN Raise("TypeError")
  ELSE LET h == estimated_hours.v IN
    IF h <= 0 THEN Ret(5 * Pt, "Invalid estimated hours")
    ELSE IF h < 100 THEN Ret(10 * Pt, "Quick win")
    ELSE IF h <= 200 THEN Ret(9 * Pt - (h - 100) * 500, "Fast task")
    ELSE IF h <= 400 THEN Ret(75 * (Pt \div 10) - (h - 200) * 750, "Moderate task")
    ELSE IF h <= 800 THEN Ret(55 * (Pt \div 10) - (h - 400) * 375, "Substantial task")
    ELSE Ret(Max(1 * Pt, 3 * Pt - (h - 800) * 200), "Large task")

\* calculate_effort_score(estimated_hours): `estimated_hours <= 0` raises
\* TypeError for a str or None.
calculate_effort_score(estimated_hours) ==
  IF ~IsNumber(estimated_hours) THEN Raise("TypeError")
  ELSE LET h == estimated_hours.v IN
    IF h <= 0 THEN Ret(5 * Pt, "Invalid estimated hours")
    ELSE IF h < 100 THEN Ret(10 * Pt, "Quick win")
    ELSE IF h <= 200 THEN Ret(9 * Pt - (h - 100) * 500, "Fast task")
    ELSE IF h <= 400 THEN Ret(75 * (Pt \div 10) - (h - 200) * 750, "Moderate task")
    ELSE IF h <= 800 THEN Ret(55 * (Pt \div 10) - (h - 400) * 375, "Substantial task")
    ELSE Ret(Max(1 * Pt, 4 * Pt - (h - 800) * 200), "Large task")

(***************************************************************************)
(* Task dicts.  `pos` is the 0-based position of the dict in the request   *)
(* list; it is not a key of the dict and only tells equal dicts apart.     *)
(***************************************************************************)
MkTask(p, id, title, due, hours, imp, deps) ==
  [pos |-> p, id |-> id, title |-> title, due_date |-> due,
   estimated_hours |-> hours, importance |-> imp, dependencies |-> deps]

\* a dict with 'id' and 'dependencies' and otherwise valid fields
GraphTask(p, id, deps) ==
  MkTask(p, id, V("str", 6), V("date", 5), V("int", 200), V("int", 500), deps)

IntList(s) == V("list", [i \in 1 .. Len(s) |-> V("int", s[i])])

\* task.get('dependencies', []): the ids listed
DepList(task) ==
  IF task.dependencies.k = "list"
  THEN [i \in 1 .. Len(task.dependencies.v) |-> task.dependencies.v[i].v]
  ELSE <<>>

\* `task_id in task_deps`
InDeps(task_id, task) ==
  /\ task.dependencies.k = "list"
  /\ \E i \in 1 .. Len(task.dependencies.v) :
       task.dependencies.v[i] = V("int", task_id)

\* the positions of the tasks counted in blocking_count
Blocked(task_id, all_tasks) ==
  {i \in 1 .. Len(all_tasks) : InDeps(task_id, all_tasks[i])}

dependency_score_uncapped(task_id, all_tasks) ==
  LET blocking_count == Cardinality(Blocked(task_id, all_tasks)) IN
  IF blocking_count = 0 THEN Ret(3 * Pt, "No tasks depend on this")
  ELSE IF blocking_count = 1 THEN Ret(6 * Pt, "Blocks 1 task")
  ELSE IF blocking_count = 2 THEN Ret(8 * Pt, "Blocks 2 tasks")
  ELSE Ret(8 * Pt + (blocking_count - 2) * 50000, "Blocks tasks - High priority!")

calculate_dependency_score(task_id, all_tasks) ==
  LET blocking_count == Cardinality(Blocked(task_id, all_tasks)) IN
  IF blocking_count = 0 THEN Ret(3 * Pt, "No tasks depend on this")
  ELSE IF blocking_count = 1 THEN Ret(6 * Pt, "Blocks 1 task")
  ELSE IF blocking_count = 2 THEN Ret(8 * Pt, "Blocks 2 tasks")
  ELSE Ret(Min(10 * Pt, 8 * Pt + (blocking_count - 2) * 50000),
           "Blocks tasks - High priority!")

(***************************************************************************)
(* scoring.py: detect_circular_dependencies                                *)
(***************************************************************************)

\* the keys of `graph` in insertion order: a repeated id keeps its first place
RECURSIVE GraphKeys(_)
GraphKeys(ts) ==
  IF ts = <<>> THEN <<>>
  ELSE LET front == GraphKeys(SubSeq(ts, 1, Len(ts) - 1))
           id == ts[Len(ts)].id.v
       IN IF \E i \in 1 .. Len(front) : front[i] = id THEN front
          ELSE Append(front, id)

\* graph.get(node, []): a repeated id keeps the dependencies of its last task
Neighbors(ts, node) ==
  LET at == {i \in 1 .. Len(ts) : ts[i].id.v = node} IN
  IF at = {} THEN <<>>
  ELSE DepList(ts[CHOOSE i \in at : \A j \in at : j <= i])

\* path.index(x): the first position of x, 0 when x is not in the path
Index(path, x) ==
  IF \E i \in 1 .. Len(path) : path[i] = x
  THEN CHOOSE i \in 1 .. Len(path) :
         path[i] = x /\ \A j \in 1 .. (i - 1) : path[j] # x
  ELSE 0

\* The traversal's state: the shared sets visited and rec_stack, the value
\* returned (cycle, <<>> for None), whether ValueError escaped path.index,
\* and the log of the nodes has_cycle_util was entered with.
RECURSIVE has_cycle_util(_, _, _, _), visit_neighbors(_, _, _, _, _)

has_cycle_util(ts, node, st, path) ==
  visit_neighbors(ts, node, 1,
                  [st EXCEPT !.visited = @ \cup {node},
                             !.rec_stack = @ \cup {node},
                             !.entered = Append(@, node)],
                  Append(path, node))

visit_neighbors_keeps_stack(ts, node, i, st, path) ==
  LET nbrs == Neighbors(ts, node) IN
  IF i > Len(nbrs) THEN [st EXCEPT !.cycle = <<>>]
  ELSE LET neighbor == nbrs[i] IN
    IF neighbor \notin st.visited
    THEN LET r == has_cycle_util(ts, neighbor, st, path) IN
         IF r.cycle # <<>> \/ r.raised THEN r
         ELSE visit_neighbors(ts, node, i + 1, r, path)
    ELSE IF neighbor \in st.rec_stack
    THEN IF Index(path, neighbor) = 0 THEN [st EXCEPT !.raised = TRUE]
         ELSE [st EXCEPT !.cycle =
                 SubSeq(path, Index(path, neighbor), Len(path)) \o <<neighbor>>]
    ELSE visit_neighbors(ts, node, i + 1, st, path)

\* the `for neighbor in graph.get(node, [])` loop from its i-th neighbour on,
\* then rec_stack.remove(node) and `return None`
visit_neighbors(ts, node, i, st, path) ==
  LET nbrs == Neighbors(ts, node) IN
  IF i > Len(nbrs) THEN [st EXCEPT !.rec_stack = @ \ {node}, !.cycle = <<>>]
  ELSE LET neighbor == nbrs[i] IN
    IF neighbor \notin st.visited
    THEN LET r == has_cycle_util(ts, neighbor, st, path) IN
         IF r.cycle # <<>> \/ r.raised THEN r
         ELSE visit_neighbors(ts, node, i + 1, r, path)
    ELSE IF neighbor \in st.rec_stack
    THEN IF Index(path, neighbor) = 0 THEN [st EXCEPT !.raised = TRUE]
         ELSE [st EXCEPT !.cycle =
                 SubSeq(path, Index(path, neighbor), Len(path)) \o <<neighbor>>]
    ELSE visit_neighbors(ts, node, i + 1, st, path)

\* the outer loop `for task_id in graph` from the k-th key on; acc carries
\* visited, the cycles found so far, and the log
RECURSIVE outer_loop(_, _, _, _)
outer_loop(ts, keys, k, acc) ==
  IF k > Len(keys) \/ acc.raised THEN acc
  ELSE IF keys[k] \in acc.visited THEN outer_loop(ts, keys, k + 1, acc)
  ELSE LET r == has_cycle_util(ts, keys[k],
                  [visited |-> acc.visited, rec_stack |-> {}, cycle |-> <<>>,
                   raised |-> FALSE, entered |-> acc.entered],
                  <<>>)
       IN outer_loop(ts, keys, k + 1,
            [visited |-> r.visited,
             cycles |-> IF r.cycle # <<>> THEN Append(acc.cycles, r.cycle)
                        ELSE acc.cycles,
             raised |-> r.raised,
             entered |-> r.entered])

\* returns (has_cycles, cycles); a cycle description is kept as its id path
detect_circular_dependencies(ts) ==
  LET r == outer_loop(ts, GraphKeys(ts), 1,
             [visited |-> {}, cycles |-> <<>>, raised |-> FALSE, entered |-> <<>>])
  IN [raised |-> r.raised, has_cycles |-> Len(r.cycles) > 0,
      cycles |-> r.cycles, entered |-> r.entered]

(***************************************************************************)
(* scoring.py: calculate_final_score                                       *)
(***************************************************************************)
Weights(u, i, e, d) == [urgency |-> u, importance |-> i, effort |-> e, dependency |-> d]

\* the weight table, in hundredths
STRATEGY_WEIGHTS ==
  [FASTEST_WINS |-> Weights(15, 15, 55, 15),
   HIGH_IMPACT |-> Weights(15, 55, 15, 15),
   DEADLINE_DRIVEN |-> Weights(55, 20, 10, 15),
   SMART_BALANCE |-> Weights(25, 25, 25, 25)]

WeightsForFastest(strat) ==
  IF strat \in DOMAIN STRATEGY_WEIGHTS THEN STRATEGY_WEIGHTS[strat]
  ELSE STRATEGY_WEIGHTS["FASTEST_WINS"]

\* STRATEGY_WEIGHTS.get(strategy, STRATEGY_WEIGHTS['SMART_BALANCE'])
WeightsFor(strat) ==
  IF strat \in DOMAIN STRATEGY_WEIGHTS THEN STRATEGY_WEIGHTS[strat]
  ELSE STRATEGY_WEIGHTS["SMART_BALANCE"]

Round2Down(s) == s \div Pt

\* round(x, 2) of x = s / (100 * Pt) points, in hundredths of a point: to the
\* nearest hundredth, an exact half to the even one
Round2(s) ==
  LET q == s \div Pt
      r == s % Pt
  IN IF 2 * r > Pt THEN q + 1
     ELSE IF 2 * r < Pt THEN q
     ELSE IF q % 2 = 0 THEN q ELSE q + 1

calculate_final_score(task, all_tasks, strat) ==
  LET weights == WeightsFor(strat)
      u == calculate_urgency_score(task.due_date)
      i == calculate_importance_score(task.importance)
      e == calculate_effort_score(task.estimated_hours)
      d == calculate_dependency_score(task.id.v, all_tasks)
  IN [raised |-> u.raised \/ i.raised \/ e.raised \/ d.raised,
      final_score |-> Round2(u.score * weights.urgency
                             + i.score * weights.importance
                             + e.score * weights.effort
                             + d.score * weights.dependency),
      breakdown |-> [urgency |-> u.score, importance |-> i.score,
                     effort |-> e.score, dependency |-> d.score],
      weights |-> weights]

(***************************************************************************)
(* utils.py                                                                *)
(***************************************************************************)
Cond(b, msg) == IF b THEN <<msg>> ELSE <<>>

\* `field not in task_dict or task_dict[field] is None`
Missing(x) == x.k \in {"absent", "null"}

\* int(x) toward zero, for x in hundredths
Trunc(v) == IF v >= 0 THEN v \div 100 ELSE 0 - ((0 - v) \div 100)

\* A title is V("str", n): a string of n characters, one of them not white
\* space; V("blank", n): n white-space characters (n = 0: the empty string).
TitleErrors(title) ==
  IF title.k = "absent" THEN <<>>
  ELSE IF title.k \notin {"str", "blank"} THEN <<"Title must be a string">>
  ELSE IF title.k = "blank" THEN <<"Title cannot be empty">>
  ELSE IF title.v > 255 THEN <<"Title must be 255 characters or less">>
  ELSE <<>>

DueDateErrors(due_date) ==
  IF due_date.k = "absent" THEN <<>>
  ELSE IF IsString(due_date)
  THEN Cond(due_date.k # "date", "Invalid due_date format. Use YYYY-MM-DD")
  ELSE Cond(due_date.k # "datetime",
            "due_date must be a string (YYYY-MM-DD) or datetime object")

\* float(hours) succeeds on a number and on a string that spells one
HoursErrors(hours) ==
  IF hours.k = "absent" THEN <<>>
  ELSE IF hours.k \in {"int", "float", "str"}
  THEN Cond(hours.v <= 0, "estimated_hours must be greater than 0")
  ELSE <<"estimated_hours must be a number">>

\* int(importance) succeeds on an int, on a float (truncated) and on a
\* string that spells an integer
ImportanceErrors(importance) ==
  IF importance.k = "absent" THEN <<>>
  ELSE IF \/ importance.k \in {"int", "float"}
          \/ importance.k = "str" /\ importance.v % 100 = 0
  THEN Cond(Trunc(importance.v) < 1 \/ Trunc(importance.v) > 10,
            "importance must be between 1 and 10")
  ELSE <<"importance must be an integer">>

DependenciesErrors(deps) ==
  IF deps.k = "absent" THEN <<>>
  ELSE IF deps.k # "list" THEN <<"dependencies must be a list">>
  ELSE Cond(\E j \in 1 .. Len(deps.v) : deps.v[j].k # "int",
            "Invalid dependency ID (must be integer)")

\* returns (is_valid, errors)
validate_task_data(task_dict) ==
  LET errors ==
        Cond(Missing(task_dict.title), "Missing required field: title")
        \o Cond(Missing(task_dict.due_date), "Missing required field: due_date")
        \o Cond(Missing(task_dict.estimated_hours),
                "Missing required field: estimated_hours")
        \o Cond(Missing(task_dict.importance), "Missing required field: importance")
        \o TitleErrors(task_dict.title)
        \o DueDateErrors(task_dict.due_date)
        \o HoursErrors(task_dict.estimated_hours)
        \o ImportanceErrors(task_dict.importance)
        \o DependenciesErrors(task_dict.dependencies)
  IN [is_valid |-> errors = <<>>, errors |-> errors]

\* final score in hundredths of a point
get_priority_level(score) ==
  IF score >= 700 THEN "HIGH" ELSE IF score >= 400 THEN "MEDIUM" ELSE "LOW"

\* the task at 0-based position i gets id i + 1 when it has no 'id' key
add_task_ids(ts) ==
  [n \in 1 .. Len(ts) |->
     IF ts[n].id.k = "absent" THEN [ts[n] EXCEPT !.id = V("int", n)] ELSE ts[n]]

(***************************************************************************)
(* serializers.py: TaskAnalysisSerializer                                  *)
(***************************************************************************)
StrategyChoices == {"FASTEST_WINS", "HIGH_IMPACT", "DEADLINE_DRIVEN", "SMART_BALANCE"}

\* validate_tasks: every task has the four required keys
validate_tasks(value) ==
  /\ value # <<>>
  /\ \A n \in 1 .. Len(value) :
       /\ value[n].title.k # "absent"
       /\ value[n].due_date.k # "absent"
       /\ value[n].estimated_hours.k # "absent"
       /\ value[n].importance.k # "absent"

\* is_valid(): tasks is a non-empty list of dicts that validate_tasks
\* accepts, strategy is one of the choices or left out
serializer_is_valid(ts, strat) ==
  /\ ts # <<>>
  /\ strat \in StrategyChoices \cup {"absent"}
  /\ validate_tasks(ts)

(***************************************************************************)
(* Idle values of the variables an operation does not use.                 *)
(***************************************************************************)
None == V("none", 0)

ReqIdle ==
  /\ tasks = <<>>
  /\ strategy = "SMART_BALANCE"
  /\ all_warnings = <<>>
  /\ validated_tasks = <<>>
  /\ has_cycles = FALSE
  /\ cycle_details = <<>>
  /\ scored_tasks = <<>>
  /\ response = None

(***************************************************************************)
(* calculate_urgency_score on two due dates d1, d2 days from today.        *)
(***************************************************************************)
DayGrid == (0 - 3) .. MaxDays

InitUrgency ==
  /\ pc = "call"
  /\ arg \in {<<V("date", d1), V("date", d2)>> : d1 \in DayGrid, d2 \in DayGrid}
  /\ res = None
  /\ ReqIdle

CallUrgency ==
  /\ pc = "call"
  /\ res' = <<calculate_urgency_score(arg[1]), calculate_urgency_score(arg[2])>>
  /\ pc' = "returned"
  /\ UNCHANGED <<arg, reqVars>>

NextUrgency == CallUrgency

SpecUrgency == InitUrgency /\ [][NextUrgency]_vars

\* C10: for all 0 <= d1 < d2, urgency(d1) >= urgency(d2); urgency(1) > urgency(30).
C10_UrgencyNonIncreasing ==
  pc = "returned" =>
    /\ (0 <= arg[1].v /\ arg[1].v < arg[2].v) =>
         (~res[1].raised /\ ~res[2].raised /\ res[1].score >= res[2].score)
    /\ (arg[1].v = 1 /\ arg[2].v = 30) => res[1].score > res[2].score

C10_Witness ==
  /\ pc = "returned"
  /\ arg[1].v = 1 /\ arg[2].v = 30
  /\ res[1].score = 770000 /\ res[2].score = 140000

(***************************************************************************)
(* calculate_effort_score on two hour values h1, h2.                       *)
(***************************************************************************)
HourGrid == {25 * n : n \in 1 .. (4 * MaxHours)} \cup {1, 99, 101, 201, 401, 801}

InitEffort ==
  /\ pc = "call"
  /\ arg \in {<<V("float", h1), V("float", h2)>> : h1 \in HourGrid, h2 \in HourGrid}
  /\ res = None
  /\ ReqIdle

CallEffort ==
  /\ pc = "call"
  /\ res' = <<calculate_effort_score(arg[1]), calculate_effort_score(arg[2])>>
  /\ pc' = "returned"
  /\ UNCHANGED <<arg, reqVars>>

NextEffort == CallEffort

SpecEffort == InitEffort /\ [][NextEffort]_vars

\* C9 as stated: effort(0.99) = 10.0, effort(1) = 9.0, and for all
\* 1 <= h1 < h2, effort(h1) > effort(h2).
C9_StrictlyDecreasingFrom1 ==
  pc = "returned" =>
    /\ arg[1].v = 99 => res[1].score = 10 * Pt
    /\ arg[1].v = 100 => res[1].score = 9 * Pt
    /\ (100 <= arg[1].v /\ arg[1].v < arg[2].v) => res[1].score > res[2].score

\* C9 as amended: effort(0.99) = 10.0, effort(1) = 9.0; for all 1 <= h1 < h2,
\* effort(h1) >= effort(h2), strictly so when h1 < 23; from 23 hours on the
\* score is the floor 1.0.
C9_DecreasingToFloor ==
  pc = "returned" =>
    /\ ~res[1].raised /\ ~res[2].raised
    /\ arg[1].v = 99 => res[1].score = 10 * Pt
    /\ arg[1].v = 100 => res[1].score = 9 * Pt
    /\ (100 <= arg[1].v /\ arg[1].v < arg[2].v) =>
         /\ res[1].score >= res[2].score
         /\ arg[1].v < 2300 => res[1].score > res[2].score
    /\ arg[1].v >= 2300 => res[1].score = 1 * Pt

C9_Witness ==
  /\ pc = "returned"
  /\ arg[1].v = 2300 /\ arg[2].v = 2400
  /\ res[1].score = 1 * Pt /\ res[2].score = 1 * Pt

(***************************************************************************)
(* calculate_importance_score on one rating.                               *)
(***************************************************************************)
RatingInputs ==
  {V("int", 100 * n) : n \in (0 - 5) .. MaxRating}
    \cup {V("float", 50 * n) : n \in (0 - 4) .. (2 * MaxRating)}
    \cup {V("str", 100 * n) : n \in 0 .. 11}

InitImportance ==
  /\ pc = "call"
  /\ arg \in RatingInputs
  /\ res = None
  /\ ReqIdle

CallImportance ==
  /\ pc = "call"
  /\ res' = calculate_importance_score(arg)
  /\ pc' = "returned"
  /\ UNCHANGED <<arg, reqVars>>

NextImportance == CallImportance

SpecImportance == InitImportance /\ [][NextImportance]_vars

\* the input is an integer rating (an int, or a float with no fraction)
IsIntegerRating(x) == IsNumber(x) /\ x.v % 100 = 0

\* C8: the score equals the rating for every integer rating in 1..10, and is
\* the default 5.0 with an 'Invalid' explanation for every other input.
C8_RatingOrDefault ==
  pc = "returned" =>
    IF IsIntegerRating(arg) /\ 100 <= arg.v /\ arg.v <= 1000
    THEN ~res.raised /\ res.score = arg.v * 1000
    ELSE ~res.raised /\ res.score = 5 * Pt /\ res.exp = "Invalid importance"

(***************************************************************************)
(* Batches for the graph functions.  Neither function reads the value of   *)
(* an id other than to compare it, so the task at position i carries id i; *)
(* an id above the length of the batch is an id absent from the batch.     *)
(***************************************************************************)
Batch(n, deps) == [i \in 1 .. n |-> GraphTask(i - 1, V("int", i), deps[i])]

(***************************************************************************)
(* detect_circular_dependencies on a batch with pairwise distinct ids.     *)
(***************************************************************************)
CycleDeps ==
  {IntList(<<>>)} \cup {IntList(<<a>>) : a \in 1 .. MaxTasks}
    \cup {IntList(<<a, b>>) : a \in 1 .. MaxTasks, b \in 1 .. MaxTasks}

InitCycles ==
  /\ pc = "call"
  /\ \E n \in 0 .. MaxTasks : \E deps \in [1 .. n -> CycleDeps] :
       arg = Batch(n, deps)
  /\ res = None
  /\ ReqIdle

CallDetect ==
  /\ pc = "call"
  /\ res' = detect_circular_dependencies(arg)
  /\ pc' = "returned"
  /\ UNCHANGED <<arg, reqVars>>

NextCycles == CallDetect

SpecCycles == InitCycles /\ [][NextCycles]_vars

\* the directed graph of a batch: an edge from each task to every id in its
\* dependencies
Edge(ts, a, b) == \E i \in 1 .. Len(ts) : ts[i].id.v = a /\ InDeps(b, ts[i])

NodeIds(ts) ==
  {ts[i].id.v : i \in 1 .. Len(ts)}
    \cup UNION {{DepList(ts[i])[j] : j \in 1 .. Len(DepList(ts[i]))} : i \in 1 .. Len(ts)}

RECURSIVE ReachWithin(_, _, _)
ReachWithin(ts, S, k) ==
  IF k = 0 THEN S
  ELSE ReachWithin(ts, S \cup {b \in NodeIds(ts) : \E a \in S : Edge(ts, a, b)}, k - 1)

HasDirectedCycle(ts) ==
  \E n \in NodeIds(ts) :
    n \in ReachWithin(ts, {b \in NodeIds(ts) : Edge(ts, n, b)}, Cardinality(NodeIds(ts)))

DistinctIds(ts) ==
  \A i \in 1 .. Len(ts) : \A j \in 1 .. Len(ts) : ts[i].id = ts[j].id => i = j

\* C2: on a batch with pairwise distinct ids, has_cycles is true exactly when
\* the dependency graph contains a directed cycle; on an empty or acyclic
\* batch the list of cycle descriptions is empty.
C2_HasCyclesIffCycle ==
  (pc = "returned" /\ DistinctIds(arg)) =>
    /\ ~res.raised
    /\ res.has_cycles = HasDirectedCycle(arg)
    /\ ~HasDirectedCycle(arg) => res.cycles = <<>>

\* the acyclic batch 1:[], 2:[1], 3:[2] and the 2-cycle 1->2->1 of the tests
C2_Witness ==
  /\ pc = "returned"
  /\ Len(arg) = 2
  /\ DepList(arg[1]) = <<2>> /\ DepList(arg[2]) = <<1>>
  /\ res.has_cycles
  /\ Len(res.cycles) = 1

Succ(ts, a) == {b \in NodeIds(ts) : Edge(ts, a, b)}

Reaches(ts, a, b) == b \in ReachWithin(ts, Succ(ts, a), Cardinality(NodeIds(ts)))

\* the nodes that lie on a cycle with a
CycleOf(ts, a) == {b \in NodeIds(ts) : Reaches(ts, a, b) /\ Reaches(ts, b, a)}

OnCycle(ts) == {a \in NodeIds(ts) : Reaches(ts, a, a)}

\* the cycles of the graph are pairwise node-disjoint: a node on a cycle has
\* one successor on a cycle with it
CyclesDisjoint(ts) == \A a \in OnCycle(ts) : Cardinality(Succ(ts, a) \cap CycleOf(ts, a)) = 1

\* C17: when the cycles of the graph are k pairwise node-disjoint cycles
\* (whatever edges lead from one to another, whatever the order of tasks and
\* of ids in the dependency lists), k cycles are reported, one for each.
C17_OneDescriptionPerDisjointCycle ==
  (pc = "returned" /\ CyclesDisjoint(arg)) =>
    /\ Len(res.cycles) = Cardinality({CycleOf(arg, a) : a \in OnCycle(arg)})
    /\ \A a \in OnCycle(arg) :
         \E j \in 1 .. Len(res.cycles) :
           {res.cycles[j][i] : i \in 1 .. Len(res.cycles[j])} = CycleOf(arg, a)


(***************************************************************************)
(* calculate_dependency_score for task id t over a batch.                  *)
(***************************************************************************)
BlockerDeps == {Absent, IntList(<<1>>), IntList(<<2>>), IntList(<<1, 2>>)}

InitDependency ==
  /\ pc = "call"
  /\ \E t \in 1 .. 2 : \E n \in 0 .. MaxBlockers : \E deps \in [1 .. n -> BlockerDeps] :
       arg = [task_id |-> t, all_tasks |-> Batch(n, deps)]
  /\ res = None
  /\ ReqIdle

CallDependency ==
  /\ pc = "call"
  /\ res' = calculate_dependency_score(arg.task_id, arg.all_tasks)
  /\ pc' = "returned"
  /\ UNCHANGED <<arg, reqVars>>

NextDependency == CallDependency

SpecDependency == InitDependency /\ [][NextDependency]_vars

\* the number of tasks other than t whose dependencies contain t
OtherDependents(t, ts) ==
  Cardinality({i \in 1 .. Len(ts) : ts[i].id # V("int", t) /\ InDeps(t, ts[i])})

\* C7: the score is 3.0, 6.0, 8.0, min(10.0, 8.0 + (c-2)*0.5) for c = 0, 1,
\* 2, more, where c counts the OTHER tasks whose dependencies contain t; a
\* task that lists its own id is not counted as blocked by itself.
C7_CountsOtherTasksOnly ==
  pc = "returned" =>
    LET c == OtherDependents(arg.task_id, arg.all_tasks) IN
    /\ ~res.raised
    /\ res.score = (IF c = 0 THEN 3 * Pt
                    ELSE IF c = 1 THEN 6 * Pt
                    ELSE IF c = 2 THEN 8 * Pt
                    ELSE Min(10 * Pt, 8 * Pt + (c - 2) * 50000))

(***************************************************************************)
(* validate_task_data on one task dict.                                    *)
(***************************************************************************)
TitleInputs ==
  {Absent, Null, V("str", 6), V("str", 255), V("str", 256), V("blank", 0),
   V("blank", 3), V("int", 7)}

DueDateInputs == {Absent, Null, V("date", 5), V("badstr", 0), V("int", 20251201)}

HoursInputs ==
  {Absent, Null, V("int", 200), V("float", 50), V("int", 0), V("float", 0 - 200),
   V("str", 300), V("badstr", 0)}

ImportanceInputs ==
  {Absent, Null, V("int", 100), V("int", 500), V("int", 1000), V("int", 0),
   V("int", 1500), V("float", 550), V("str", 500), V("str", 550), V("badstr", 0)}

DependenciesInputs ==
  {Absent, Null, V("nonlist", 0), IntList(<<>>), IntList(<<1, 2>>),
   V("list", <<V("int", 1), V("badstr", 0)>>)}

InitValidate ==
  /\ pc = "call"
  /\ arg \in {MkTask(0, Absent, t, d, h, i, deps) :
                t \in TitleInputs, d \in DueDateInputs, h \in HoursInputs,
                i \in ImportanceInputs, deps \in DependenciesInputs}
  /\ res = None
  /\ ReqIdle

CallValidate ==
  /\ pc = "call"
  /\ res' = validate_task_data(arg)
  /\ pc' = "returned"
  /\ UNCHANGED <<arg, reqVars>>

NextValidate == CallValidate

SpecValidate == InitValidate /\ [][NextValidate]_vars

\* the rules of C5, read generously: a numeric string counts as numeric, a
\* float without fraction or a string that spells an integer as an integer
RulesHold(t) ==
  /\ ~Missing(t.title) /\ ~Missing(t.due_date)
  /\ ~Missing(t.estimated_hours) /\ ~Missing(t.importance)
  /\ t.title.k = "str" /\ t.title.v <= 255
  /\ t.due_date.k = "date"
  /\ t.estimated_hours.k \in {"int", "float", "str"} /\ t.estimated_hours.v > 0
  /\ t.importance.k \in {"int", "float", "str"}
  /\ t.importance.v % 100 = 0
  /\ 100 <= t.importance.v /\ t.importance.v <= 1000
  /\ \/ t.dependencies.k = "absent"
     \/ /\ t.dependencies.k = "list"
        /\ \A j \in 1 .. Len(t.dependencies.v) : t.dependencies.v[j].k = "int"

\* C5: validate_task_data accepts a task exactly when every rule holds
\* (required fields present and non-null, title a non-blank string of at
\* most 255 characters, due_date a YYYY-MM-DD date, estimated_hours numeric
\* and > 0, importance an integer in [1,10], dependencies a list of
\* integers if present); a task violating any rule is rejected.
C5_AcceptsExactlyWhenRulesHold ==
  pc = "returned" => (res.is_valid <=> RulesHold(arg))


(***************************************************************************)
(* views.py: AnalyzeTasksView.post, one request from its arrival to the    *)
(* Response (or to the exception that escapes the view).                   *)
(***************************************************************************)
Resp(st, err, ts, ws, strat, hc, cd) ==
  [status |-> st, error |-> err, tasks |-> ts, warnings |-> ws, strategy |-> strat,
   has_circular_dependencies |-> hc, circular_dependency_details |-> cd]

Warning(type, index, title, message, details) ==
  [type |-> type, task_index |-> index, task_title |-> title, message |-> message,
   details |-> details]

\* the warnings of the task at 0-based position i:
\* task.get('title', f'Task {i + 1}') names it
TaskWarnings(i, task, errors) ==
  [j \in 1 .. Len(errors) |->
     Warning("validation_error", i,
             IF task.title.k = "absent" THEN V("Task", i + 1) ELSE task.title,
             errors[j], <<>>)]

\* lines 45-58: the warnings and the valid tasks of the first n tasks
RECURSIVE ValidateLoop(_, _)
ValidateLoop(ts, n) ==
  IF n = 0 THEN [all_warnings |-> <<>>, validated_tasks |-> <<>>]
  ELSE LET before == ValidateLoop(ts, n - 1)
           r == validate_task_data(ts[n])
       IN IF ~r.is_valid
          THEN [before EXCEPT !.all_warnings = @ \o TaskWarnings(n - 1, ts[n], r.errors)]
          ELSE [before EXCEPT !.validated_tasks = Append(@, ts[n])]

\* lines 86-92: {**task, 'priority_score': ..., ...}
Scored(task, score_data) ==
  [pos |-> task.pos, id |-> task.id, title |-> task.title, due_date |-> task.due_date,
   estimated_hours |-> task.estimated_hours, importance |-> task.importance,
   dependencies |-> task.dependencies,
   priority_score |-> score_data.final_score,
   score_breakdown |-> score_data.breakdown,
   priority_level |-> get_priority_level(score_data.final_score)]

\* x goes behind every element whose key is not smaller: list.sort is stable,
\* and with reverse=True equal keys keep their original order
InsertSorted(sorted, x) ==
  LET k == Cardinality({j \in 1 .. Len(sorted) :
                          sorted[j].priority_score >= x.priority_score})
  IN SubSeq(sorted, 1, k) \o <<x>> \o SubSeq(sorted, k + 1, Len(sorted))

\* scored_tasks.sort(key=lambda x: x['priority_score'], reverse=True)
RECURSIVE SortByScore(_)
SortByScore(s) ==
  IF s = <<>> THEN <<>>
  ELSE InsertSorted(SortByScore(SubSeq(s, 1, Len(s) - 1)), s[Len(s)])

\* The requests: up to MaxBatch task dicts, each one of a few profiles
\* (valid; valid with other scores; no title; importance "5"; importance
\* 15), with or without an id, with or without a dependency.
Profile(title, due, hours, imp) ==
  [title |-> title, due_date |-> due, estimated_hours |-> hours, importance |-> imp]

TaskProfiles ==
  {Profile(V("str", 6), V("date", 0), V("int", 100), V("int", 500)),
   Profile(V("str", 6), V("date", 5), V("float", 350), V("int", 800)),
   Profile(Absent, V("date", 0), V("int", 100), V("int", 500)),
   Profile(V("str", 6), V("date", 0), V("int", 100), V("str", 500)),
   Profile(V("str", 6), V("date", 0), V("int", 100), V("int", 1500))}

RequestIds == {Absent, V("int", 2)}

RequestDeps == {Absent, IntList(<<1>>), IntList(<<2>>)}

RequestStrategies == {"absent", "FASTEST_WINS", "BOGUS"}

Init ==
  /\ pc = "request"
  /\ \E n \in 0 .. MaxBatch :
       \E pr \in [1 .. n -> TaskProfiles] :
         \E ids \in [1 .. n -> RequestIds] :
           \E deps \in [1 .. n -> RequestDeps] :
             tasks = [i \in 1 .. n |->
                        MkTask(i - 1, ids[i], pr[i].title, pr[i].due_date,
                               pr[i].estimated_hours, pr[i].importance, deps[i])]
  /\ strategy \in RequestStrategies
  /\ all_warnings = <<>>
  /\ validated_tasks = <<>>
  /\ has_cycles = FALSE
  /\ cycle_details = <<>>
  /\ scored_tasks = <<>>
  /\ response = None
  /\ arg = None
  /\ res = None

\* lines 25-36
Serialize ==
  /\ pc = "request"
  /\ IF serializer_is_valid(tasks, strategy)
     THEN /\ strategy' = (IF strategy = "absent" THEN "SMART_BALANCE" ELSE strategy)
          /\ pc' = "add_ids"
          /\ UNCHANGED response
     ELSE /\ response' = Resp(400, "Invalid request data", <<>>, <<>>, strategy, FALSE, <<>>)
          /\ pc' = "done"
          /\ UNCHANGED strategy
  /\ UNCHANGED <<tasks, all_warnings, validated_tasks, has_cycles, cycle_details,
                 scored_tasks, arg, res>>

\* line 39
AddTaskIds ==
  /\ pc = "add_ids"
  /\ tasks' = add_task_ids(tasks)
  /\ pc' = "validate"
  /\ UNCHANGED <<strategy, all_warnings, validated_tasks, has_cycles, cycle_details,
                 scored_tasks, response, arg, res>>

\* lines 41-68
ValidateTasks ==
  /\ pc = "validate"
  /\ LET r == ValidateLoop(tasks, Len(tasks)) IN
       /\ all_warnings' = r.all_warnings
       /\ validated_tasks' = r.validated_tasks
       /\ IF r.validated_tasks = <<>>
          THEN /\ response' = Resp(400, "No valid tasks to analyze", <<>>,
                                   r.all_warnings, strategy, FALSE, <<>>)
               /\ pc' = "done"
          ELSE /\ pc' = "cycles"
               /\ UNCHANGED response
  /\ UNCHANGED <<tasks, strategy, has_cycles, cycle_details, scored_tasks, arg, res>>

\* lines 70-78
DetectCycles ==
  /\ pc = "cycles"
  /\ LET r == detect_circular_dependencies(validated_tasks) IN
       /\ has_cycles' = r.has_cycles
       /\ cycle_details' = r.cycles
       /\ all_warnings' =
            IF r.has_cycles
            THEN Append(all_warnings,
                        Warning("circular_dependency", 0 - 1, None,
                                "Circular dependencies detected!", r.cycles))
            ELSE all_warnings
  /\ pc' = "score"
  /\ UNCHANGED <<tasks, strategy, validated_tasks, scored_tasks, response, arg, res>>

\* lines 80-93; an exception raised by calculate_final_score escapes the view
ScoreTasks ==
  /\ pc = "score"
  /\ LET score_data == [n \in 1 .. Len(validated_tasks) |->
                          calculate_final_score(validated_tasks[n], validated_tasks,
                                                strategy)]
     IN IF \E n \in 1 .. Len(validated_tasks) : score_data[n].raised
        THEN /\ response' = Resp(500, "TypeError", <<>>, <<>>, strategy, FALSE, <<>>)
             /\ pc' = "done"
             /\ UNCHANGED scored_tasks
        ELSE /\ scored_tasks' = [n \in 1 .. Len(validated_tasks) |->
                                   Scored(validated_tasks[n], score_data[n])]
             /\ pc' = "sort"
             /\ UNCHANGED response
  /\ UNCHANGED <<tasks, strategy, all_warnings, validated_tasks, has_cycles,
                 cycle_details, arg, res>>

\* lines 95-107
SortAndRespond ==
  /\ pc = "sort"
  /\ scored_tasks' = SortByScore(scored_tasks)
  /\ response' = Resp(200, "", SortByScore(scored_tasks), all_warnings, strategy,
                      has_cycles, IF has_cycles THEN cycle_details ELSE <<>>)
  /\ pc' = "done"
  /\ UNCHANGED <<tasks, strategy, all_warnings, validated_tasks, has_cycles,
                 cycle_details, arg, res>>

Next ==
  \/ Serialize
  \/ AddTaskIds
  \/ ValidateTasks
  \/ DetectCycles
  \/ ScoreTasks
  \/ SortAndRespond

Spec == Init /\ [][Next]_vars


\* the request got past the serializer
Accepted == response = None \/ response.error # "Invalid request data"

\* response.tasks holds each task of validated_tasks once, by non-increasing
\* priority_score, equal scores in input order
RankedStably(out, valid) ==
  /\ Len(out) = Len(valid)
  /\ \A n \in 1 .. Len(valid) :
       Cardinality({m \in 1 .. Len(out) : out[m].pos = valid[n].pos}) = 1
  /\ \A m \in 1 .. Len(out) : \A n \in 1 .. Len(out) :
       m < n => \/ out[m].priority_score > out[n].priority_score
                \/ /\ out[m].priority_score = out[n].priority_score
                   /\ out[m].pos < out[n].pos

\* C1: when N tasks of the batch pass validation, the analysis returns
\* exactly those N tasks, each scored once, by non-increasing priority_score,
\* tasks of equal score in their input order.
C1_RanksValidTasksStably ==
  (pc = "done" /\ Accepted /\ validated_tasks # <<>>) =>
    /\ response.status = 200
    /\ RankedStably(response.tasks, validated_tasks)

\* C3: for every non-empty batch of task dicts the pipeline completes without
\* raising: whatever passes validate_task_data is scored without an error.
C3_NoExceptionEscapes ==
  pc = "done" => response.status # 500

\* a task every rule of validation holds for, with numbers for numbers
WellTyped(t) ==
  /\ RulesHold(t)
  /\ IsNumber(t.estimated_hours)
  /\ t.importance.k = "int"

LackTitle == {n \in 1 .. Len(tasks) : tasks[n].title.k = "absent"}

\* C4: when exactly one task lacks the title field and every other task is
\* valid, the analysis is not rejected as a whole: it yields exactly one
\* warning, which carries that task's index, leaves that task out of the
\* scored output and ranks every other task.
C4_MissingTitleIsOneWarning ==
  (/\ pc = "done"
   /\ strategy \in StrategyChoices \cup {"absent"}
   /\ Cardinality(LackTitle) = 1
   /\ Len(tasks) >= 2
   /\ \A n \in (1 .. Len(tasks)) \ LackTitle : WellTyped(tasks[n]))
  => /\ response.status = 200
     /\ Len(response.warnings) = 1
     /\ \A n \in LackTitle : response.warnings[1].task_index = n - 1
     /\ Len(response.tasks) = Len(tasks) - 1
     /\ \A n \in 1 .. Len(tasks) :
          Cardinality({m \in 1 .. Len(response.tasks) : response.tasks[m].pos = n - 1})
            = (IF n \in LackTitle THEN 0 ELSE 1)

\* C6: the id-assignment step leaves every task with a positive integer id:
\* a task that came with an id keeps it, a batch without ids is numbered
\* 1, 2, ... in input order, and no two tasks end up with the same id.
C6_IdsKeptSequentialUnique ==
  [][AddTaskIds =>
       /\ Len(tasks') = Len(tasks)
       /\ \A n \in 1 .. Len(tasks) :
            /\ tasks'[n].id.k = "int" /\ tasks'[n].id.v >= 1
            /\ tasks[n].id.k # "absent" => tasks'[n].id = tasks[n].id
       /\ (\A n \in 1 .. Len(tasks) : tasks[n].id.k = "absent") =>
            \A n \in 1 .. Len(tasks) : tasks'[n].id.v = n
       /\ \A m \in 1 .. Len(tasks) : \A n \in 1 .. Len(tasks) :
            tasks'[m].id = tasks'[n].id => m = n]_vars


(***************************************************************************)
(* calculate_urgency_score on one due date, d days from a today that falls *)
(* on any day of the week (0 = Monday ... 6 = Sunday, date.weekday()).     *)
(***************************************************************************)
InitUrgencyTable ==
  /\ pc = "call"
  /\ arg \in [due : {V("date", d) : d \in DayGrid}, weekday : 0 .. 6]
  /\ res = None
  /\ ReqIdle

CallUrgencyTable ==
  /\ pc = "call"
  /\ res' = calculate_urgency_score(arg.due)
  /\ pc' = "returned"
  /\ UNCHANGED <<arg, reqVars>>

NextUrgencyTable == CallUrgencyTable

SpecUrgencyTable == InitUrgencyTable /\ [][NextUrgencyTable]_vars

\* the due date falls on a Saturday or a Sunday
DueOnWeekend == (arg.weekday + arg.due.v + 7) % 7 \in {5, 6}

\* the scores of d = 0 .. 14, in hundredths of a point
UrgencyTable ==
  <<900, 770, 740, 710, 650, 600, 550, 500, 470, 440, 410, 380, 350, 320, 290>>

FinalDays == {0 - 1, 0, 2, 5, 10, 20}

FinalHours == {V("float", 50), V("float", 104), V("float", 150), V("int", 300),
               V("int", 600), V("int", 1000)}

FinalRatings == {V("int", 100), V("int", 500), V("int", 800), V("str", 500)}

FinalStrategies == StrategyChoices \cup {"absent", "BOGUS", "smart_balance"}

InitFinal ==
  /\ pc = "call"
  /\ \E d \in FinalDays : \E h \in FinalHours : \E i \in FinalRatings :
       \E n \in 0 .. MaxBatch : \E deps \in [1 .. n -> RequestDeps] :
         \E s \in FinalStrategies :
           arg = [task |-> MkTask(0, V("int", 1), V("str", 6), V("date", d), h, i, Absent),
                  all_tasks |-> Batch(n, deps),
                  strategy |-> s]
  /\ res = None
  /\ ReqIdle

CallFinal ==
  /\ pc = "call"
  /\ res' = calculate_final_score(arg.task, arg.all_tasks, arg.strategy)
  /\ pc' = "returned"
  /\ UNCHANGED <<arg, reqVars>>

NextFinal == CallFinal

SpecFinal == InitFinal /\ [][NextFinal]_vars

\* f is a nearest whole number to num / step
NearestHundredth(f, num, step) ==
  /\ 2 * (num - f * step) <= step
  /\ 2 * (f * step - num) <= step

\* C12: under every strategy the final score is the sum over the four
\* factors of factor score times the strategy's weight, rounded to 2
\* decimals; under SMART_BALANCE that is the arithmetic mean of the four
\* factor scores rounded to 2 decimals; the dependency factor is the one of
\* the task's id in the batch passed in.
C12_WeightedSumRounded ==
  (pc = "returned" /\ ~res.raised) =>
    LET b == res.breakdown
        w == IF arg.strategy \in StrategyChoices THEN STRATEGY_WEIGHTS[arg.strategy]
             ELSE Weights(25, 25, 25, 25)
    IN /\ b.dependency = calculate_dependency_score(1, arg.all_tasks).score
       /\ NearestHundredth(res.final_score,
                           b.urgency * w.urgency + b.importance * w.importance
                             + b.effort * w.effort + b.dependency * w.dependency,
                           Pt)
       /\ arg.strategy = "SMART_BALANCE" =>
            NearestHundredth(res.final_score,
                             b.urgency + b.importance + b.effort + b.dependency,
                             4 * (Pt \div 100))

\* SMART_BALANCE on a task whose mean, 6.495, is not a whole number of
\* hundredths
C12_Witness ==
  /\ pc = "returned"
  /\ ~res.raised
  /\ arg.strategy = "SMART_BALANCE"
  /\ res.breakdown = [urgency |-> 9 * Pt, importance |-> 5 * Pt,
                      effort |-> 898000, dependency |-> 3 * Pt]
  /\ res.final_score \in {649, 650}

\* C16: with a strategy name that is not one of the four (or with none) the
\* score of a well-typed task is computed, with weight 0.25 for each factor,
\* and returned.
C16_UnknownStrategyFallsBack ==
  (/\ pc = "returned"
   /\ arg.strategy \notin StrategyChoices
   /\ IsNumber(arg.task.importance))
  => /\ ~res.raised
     /\ res.weights = Weights(25, 25, 25, 25)
     /\ NearestHundredth(res.final_score,
                         res.breakdown.urgency + res.breakdown.importance
                           + res.breakdown.effort + res.breakdown.dependency,
                         4 * (Pt \div 100))

C16_Witness ==
  /\ pc = "returned"
  /\ arg.strategy = "BOGUS"
  /\ ~res.raised
  /\ res.weights = Weights(25, 25, 25, 25)
  /\ res.breakdown.effort = 10 * Pt
  /\ res.breakdown.importance = 1 * Pt


(***************************************************************************)
(* detect_circular_dependencies step by step.  res holds the function's    *)
(* locals: keys (the keys of graph, in order), k (the position of the      *)
(* outer loop), visited, rec_stack, cycles, and frames, the activations of *)
(* has_cycle_util, innermost last, each with its node, its own copy of     *)
(* path and the position i of its `for neighbor` loop; ret is the cycle a  *)
(* returning activation hands to its caller, entered the log of the nodes  *)
(* has_cycle_util was called with.                                         *)
(***************************************************************************)
MaxNodes == 3

DfsDeps ==
  {IntList(<<>>)} \cup {IntList(<<a>>) : a \in 1 .. MaxNodes}
    \cup {IntList(<<a, b>>) : a \in 1 .. MaxNodes, b \in 1 .. MaxNodes}

InitDfs ==
  /\ pc = "call"
  /\ \E n \in 0 .. MaxNodes : \E deps \in [1 .. n -> DfsDeps] :
       arg = Batch(n, deps)
  /\ res = None
  /\ ReqIdle

Frame(node, path) == [node |-> node, i |-> 1, path |-> path]

Top == res.frames[Len(res.frames)]

Popped == SubSeq(res.frames, 1, Len(res.frames) - 1)

\* the caller's loop moves on to its next neighbour
Resumed(frames) ==
  [n \in 1 .. Len(frames) |->
     IF n = Len(frames) THEN [frames[n] EXCEPT !.i = @ + 1] ELSE frames[n]]

\* lines 238-244 and 265-266
BuildGraph ==
  /\ pc = "call"
  /\ res' = [keys |-> GraphKeys(arg), k |-> 1, visited |-> {}, rec_stack |-> {},
             cycles |-> <<>>, frames |-> <<>>, ret |-> <<>>, entered |-> <<>>]
  /\ pc' = "outer"
  /\ UNCHANGED <<arg, reqVars>>

\* lines 268-269: a key already in visited is passed over
OuterSkip ==
  /\ pc = "outer"
  /\ res.k <= Len(res.keys)
  /\ res.keys[res.k] \in res.visited
  /\ res' = [res EXCEPT !.k = @ + 1]
  /\ UNCHANGED <<pc, arg, reqVars>>

\* line 270 and lines 248-250: has_cycle_util(task_id, visited, set(), [])
OuterCall ==
  /\ pc = "outer"
  /\ res.k <= Len(res.keys)
  /\ res.keys[res.k] \notin res.visited
  /\ LET node == res.keys[res.k] IN
       res' = [res EXCEPT !.visited = @ \cup {node},
                          !.rec_stack = {node},
                          !.entered = Append(@, node),
                          !.frames = <<Frame(node, <<node>>)>>]
  /\ pc' = "dfs"
  /\ UNCHANGED <<arg, reqVars>>

\* line 277
ReturnCycles ==
  /\ pc = "outer"
  /\ res.k > Len(res.keys)
  /\ pc' = "returned"
  /\ UNCHANGED <<res, arg, reqVars>>

\* lines 253-254 and 248-250: has_cycle_util(neighbor, visited, rec_stack, path[:])
LoopRecurse ==
  /\ pc = "dfs"
  /\ LET nbrs == Neighbors(arg, Top.node) IN
       /\ Top.i <= Len(nbrs)
       /\ nbrs[Top.i] \notin res.visited
       /\ res' = [res EXCEPT !.visited = @ \cup {nbrs[Top.i]},
                             !.rec_stack = @ \cup {nbrs[Top.i]},
                             !.entered = Append(@, nbrs[Top.i]),
                             !.frames = Append(@, Frame(nbrs[Top.i],
                                                        Append(Top.path, nbrs[Top.i])))]
  /\ UNCHANGED <<pc, arg, reqVars>>

\* lines 257-260: path.index(neighbor) raises ValueError when neighbor is not
\* in path; otherwise the activation returns the cycle
LoopBackEdge ==
  /\ pc = "dfs"
  /\ LET nbrs == Neighbors(arg, Top.node) IN
       /\ Top.i <= Len(nbrs)
       /\ nbrs[Top.i] \in res.visited
       /\ nbrs[Top.i] \in res.rec_stack
       /\ IF Index(Top.path, nbrs[Top.i]) = 0
          THEN /\ pc' = "raised"
               /\ UNCHANGED res
          ELSE /\ pc' = "unwind"
               /\ res' = [res EXCEPT
                            !.ret = SubSeq(Top.path, Index(Top.path, nbrs[Top.i]),
                                           Len(Top.path)) \o <<nbrs[Top.i]>>,
                            !.frames = Popped]
  /\ UNCHANGED <<arg, reqVars>>

LoopSkipStays ==
  /\ pc = "dfs"
  /\ LET nbrs == Neighbors(arg, Top.node) IN
       /\ Top.i <= Len(nbrs)
       /\ nbrs[Top.i] \in res.visited
       /\ nbrs[Top.i] \notin res.rec_stack
       /\ res' = res
  /\ UNCHANGED <<pc, arg, reqVars>>

\* lines 252-257: a neighbour in visited and not in rec_stack is passed over
LoopSkip ==
  /\ pc = "dfs"
  /\ LET nbrs == Neighbors(arg, Top.node) IN
       /\ Top.i <= Len(nbrs)
       /\ nbrs[Top.i] \in res.visited
       /\ nbrs[Top.i] \notin res.rec_stack
       /\ res' = [res EXCEPT !.frames = Resumed(@)]
  /\ UNCHANGED <<pc, arg, reqVars>>

LoopEndKeepsStack ==
  /\ pc = "dfs"
  /\ Top.i > Len(Neighbors(arg, Top.node))
  /\ IF Len(res.frames) = 1
     THEN /\ res' = [res EXCEPT !.frames = <<>>, !.k = @ + 1]
          /\ pc' = "outer"
     ELSE /\ res' = [res EXCEPT !.frames = Resumed(Popped)]
          /\ UNCHANGED pc
  /\ UNCHANGED <<arg, reqVars>>

\* lines 262-263, then the caller: lines 255 (None: the loop goes on) or
\* 271 (None: nothing is appended)
LoopEnd ==
  /\ pc = "dfs"
  /\ Top.i > Len(Neighbors(arg, Top.node))
  /\ IF Len(res.frames) = 1
     THEN /\ res' = [res EXCEPT !.rec_stack = @ \ {Top.node},
                                !.frames = <<>>, !.k = @ + 1]
          /\ pc' = "outer"
     ELSE /\ res' = [res EXCEPT !.rec_stack = @ \ {Top.node},
                                !.frames = Resumed(Popped)]
          /\ UNCHANGED pc
  /\ UNCHANGED <<arg, reqVars>>

\* lines 255-256: the caller returns the cycle it was handed; lines 271-275:
\* the outer loop appends it
Unwind ==
  /\ pc = "unwind"
  /\ IF res.frames = <<>>
     THEN /\ res' = [res EXCEPT !.cycles = Append(@, res.ret), !.ret = <<>>,
                                !.k = @ + 1]
          /\ pc' = "outer"
     ELSE /\ res' = [res EXCEPT !.frames = Popped]
          /\ UNCHANGED pc
  /\ UNCHANGED <<arg, reqVars>>

NextDfs ==
  \/ BuildGraph
  \/ OuterSkip
  \/ OuterCall
  \/ ReturnCycles
  \/ LoopRecurse
  \/ LoopBackEdge
  \/ LoopSkip
  \/ LoopEnd
  \/ Unwind

SpecDfs == InitDfs /\ [][NextDfs]_vars

\* The run to its end: the interpreter runs the function on, a step that
\* can be taken is taken.  Batches of up to MaxFairTasks tasks, with ids up
\* to MaxNodes in the dependency lists.
MaxFairTasks == 2

InitDfsFair ==
  /\ pc = "call"
  /\ \E n \in 0 .. MaxFairTasks : \E deps \in [1 .. n -> DfsDeps] :
       arg = Batch(n, deps)
  /\ res = None
  /\ ReqIdle

SpecDfsFair == InitDfsFair /\ [][NextDfs]_vars /\ WF_vars(NextDfs)

\* the step-by-step run returns what detect_circular_dependencies returns
StepwiseAgrees ==
  pc = "returned" =>
    LET r == detect_circular_dependencies(arg) IN
    /\ res.cycles = r.cycles
    /\ res.entered = r.entered
    /\ ~r.raised


Range(s) == {s[j] : j \in 1 .. Len(s)}

NoRepeats(s) == \A i \in 1 .. Len(s) : \A j \in 1 .. Len(s) : s[i] = s[j] => i = j

\* c = n0, n1, ..., nk is a cycle of the batch: k >= 1, n0 = nk, each n(i+1)
\* is in the dependencies of task n(i), n0 .. n(k-1) are distinct task ids
GenuineCycle(ts, c) ==
  /\ Len(c) >= 2
  /\ c[1] = c[Len(c)]
  /\ \A i \in 1 .. (Len(c) - 1) : Edge(ts, c[i], c[i + 1])
  /\ NoRepeats(SubSeq(c, 1, Len(c) - 1))
  /\ \A i \in 1 .. Len(c) : \E n \in 1 .. Len(ts) : ts[n].id.v = c[i]

\* C18: path.index never raises; whenever has_cycle_util is at its loop,
\* rec_stack is the set of the nodes of its path, which holds no node
\* twice; every cycle returned or reported is a genuine cycle of the batch.
C18_ReportedCyclesAreGenuine ==
  /\ pc # "raised"
  /\ pc = "dfs" => (res.rec_stack = Range(Top.path) /\ NoRepeats(Top.path))
  /\ pc = "unwind" => GenuineCycle(arg, res.ret)
  /\ pc \in {"outer", "dfs", "unwind", "returned"} =>
       \A j \in 1 .. Len(res.cycles) : GenuineCycle(arg, res.cycles[j])

\* the cycles 1 -> 2 -> 1 and 3 -> 3 reported
C18_Witness ==
  /\ pc = "returned"
  /\ res.cycles = <<(<<1, 2, 1>>), (<<3, 3>>)>>

\* has_cycle_util was entered at most once with each node id
NoReentry ==
  pc # "call" =>
    /\ NoRepeats(res.entered)
    /\ Len(res.entered) <= Cardinality(NodeIds(arg))

\* C19: on every batch (with cycles, self-dependencies, ids repeated in a
\* dependency list, dependencies on ids absent from the batch) the function
\* returns, and on the way has_cycle_util is entered at most once per id.
C19_TerminatesEnteringOnce == [](NoReentry) /\ <>(pc = "returned")

\* task 1 depends on 2 twice, task 2 on the absent id 3 and on 1
C19_Witness ==
  /\ pc = "returned"
  /\ Len(arg) = 2
  /\ DepList(arg[1]) = <<2, 2>>
  /\ DepList(arg[2]) = <<3, 1>>
  /\ res.entered = <<1, 2, 3>>
  /\ res.cycles = <<(<<1, 2, 1>>)>>


(***************************************************************************)
(* AnalyzeTasksView.post: cycles, batches without a valid task, and the    *)
(* fate of each task of the request.                                       *)
(***************************************************************************)

\* the tasks of the request that validate_task_data accepts, and the
\* warnings of the others
Validation == ValidateLoop(add_task_ids(tasks), Len(tasks))

KnownStrategy == strategy \in StrategyChoices \cup {"absent"}

\* the place of input task n (counted from 1) in the ranking, if any
RanksOf(n) == {m \in 1 .. Len(response.tasks) : response.tasks[m].pos = n - 1}

CycleWarnings ==
  {j \in 1 .. Len(response.warnings) : response.warnings[j].type = "circular_dependency"}

\* C13: when the valid tasks hold a dependency cycle the analysis succeeds:
\* every valid task is ranked, its dependency factor computed from the count
\* of valid tasks that list it, exactly one circular_dependency warning
\* carries all the cycle paths and has_circular_dependencies is true; when
\* they hold none there is no such warning, the flag is false and
\* circular_dependency_details is empty.  Only valid tasks count.
C13_CyclesAreWarningsOnly ==
  (pc = "done" /\ KnownStrategy /\ Validation.validated_tasks # <<>>) =>
    LET valid == Validation.validated_tasks IN
    IF HasDirectedCycle(valid)
    THEN /\ response.status = 200
         /\ Len(response.tasks) = Len(valid)
         /\ \A n \in 1 .. Len(valid) :
              \E m \in 1 .. Len(response.tasks) :
                /\ response.tasks[m].pos = valid[n].pos
                /\ response.tasks[m].score_breakdown.dependency
                     = calculate_dependency_score(valid[n].id.v, valid).score
         /\ Cardinality(CycleWarnings) = 1
         /\ \A j \in CycleWarnings :
              /\ response.warnings[j].details # <<>>
              /\ response.warnings[j].details = response.circular_dependency_details
         /\ response.has_circular_dependencies
    ELSE /\ CycleWarnings = {}
         /\ ~response.has_circular_dependencies
         /\ response.circular_dependency_details = <<>>

\* C14: when no task of the batch passes validation the analysis ends with
\* HTTP 400, carrying the validation warnings accumulated for the tasks of
\* the batch; nothing is scored or ranked and no cycle is looked for.  An
\* empty task list is rejected with an error as well.
C14_NoValidTaskIsAnError ==
  (pc = "done" /\ KnownStrategy /\ Validation.validated_tasks = <<>>) =>
    /\ response.status = 400
    /\ response.tasks = <<>>
    /\ scored_tasks = <<>>
    /\ cycle_details = <<>>
    /\ response.warnings = Validation.all_warnings

\* C20: when at least one task is valid, each input task is either ranked
\* once with no validation_error warning for its index, or not ranked with
\* at least one such warning; every valid task is ranked; the dependency
\* factor of a ranked task counts valid tasks only.
C20_EachTaskRankedOrWarned ==
  (pc = "done" /\ KnownStrategy /\ Validation.validated_tasks # <<>>) =>
    LET valid == Validation.validated_tasks
        warned(n) == \E j \in 1 .. Len(response.warnings) :
                       /\ response.warnings[j].type = "validation_error"
                       /\ response.warnings[j].task_index = n - 1
    IN /\ \A n \in 1 .. Len(tasks) :
            \/ Cardinality(RanksOf(n)) = 1 /\ ~warned(n)
            \/ RanksOf(n) = {} /\ warned(n)
       /\ \A n \in 1 .. Len(valid) : RanksOf(valid[n].pos + 1) # {}
       /\ \A m \in 1 .. Len(response.tasks) :
            response.tasks[m].score_breakdown.dependency
              = calculate_dependency_score(response.tasks[m].id.v, valid).score


(***************************************************************************)
(* views.py: SuggestTasksView.post: the analysis, then the shortlist.      *)
(* Requests of up to MaxSuggest tasks.                                     *)
(***************************************************************************)
MaxSuggest == 4

\* all_tasks[:3]
TopN == 3

SuggestProfiles ==
  {Profile(V("str", 6), V("date", 0), V("int", 100), V("int", 500)),
   Profile(V("str", 6), V("date", 5), V("float", 350), V("int", 800)),
   Profile(V("str", 6), V("date", 0), V("int", 100), V("str", 500)),
   Profile(V("str", 6), V("date", 0), V("int", 100), V("int", 1500))}

SuggestStrategies == {"absent", "HIGH_IMPACT"}

InitSuggest ==
  /\ pc = "request"
  /\ \E n \in 0 .. MaxSuggest :
       \E pr \in [1 .. n -> SuggestProfiles] :
         \E deps \in [1 .. n -> RequestDeps] :
           tasks = [i \in 1 .. n |->
                      MkTask(i - 1, Absent, pr[i].title, pr[i].due_date,
                             pr[i].estimated_hours, pr[i].importance, deps[i])]
  /\ strategy \in SuggestStrategies
  /\ all_warnings = <<>>
  /\ validated_tasks = <<>>
  /\ has_cycles = FALSE
  /\ cycle_details = <<>>
  /\ scored_tasks = <<>>
  /\ response = None
  /\ arg = None
  /\ res = None

\* lines 128-143: the phrase of the rank, the score it quotes, and whether
\* " This task is blocking other tasks!" is appended
Recommendation(rank, task) ==
  [phrase |-> IF rank = 1 THEN "TOP PRIORITY"
              ELSE IF rank = 2 THEN "Second priority"
              ELSE "Third priority",
   score |-> task.priority_score,
   blocking |-> task.score_breakdown.dependency >= 6 * Pt]

\* task['recommendation'] = recommendation
Recommended(rank, task) ==
  [f \in DOMAIN task \cup {"recommendation"} |->
     IF f = "recommendation" THEN Recommendation(rank, task) ELSE task[f]]

\* lines 114-155: an answer of the analysis other than 200 (or the exception
\* that escaped it) is passed on as it is
SuggestTopTasks ==
  /\ pc = "done"
  /\ res' = IF response.status # 200 THEN response
            ELSE [status |-> 200,
                  top_tasks |-> [m \in 1 .. Min(TopN, Len(response.tasks)) |->
                                   Recommended(m, response.tasks[m])],
                  strategy |-> response.strategy,
                  total_tasks_analyzed |-> Len(response.tasks),
                  warnings |-> response.warnings,
                  has_circular_dependencies |-> response.has_circular_dependencies,
                  circular_dependency_details |-> response.circular_dependency_details]
  /\ pc' = "suggested"
  /\ UNCHANGED <<arg, reqVars>>

NextSuggest == Next \/ SuggestTopTasks

SpecSuggest == InitSuggest /\ [][NextSuggest]_vars

\* s holds each task of valid once, by non-increasing score, equal scores in
\* input order; score(n) is the final score of input position n
IsRanking(s, valid, score(_)) ==
  /\ Len(s) = Len(valid)
  /\ \A n \in 1 .. Len(valid) : \E m \in 1 .. Len(s) : s[m] = valid[n].pos
  /\ \A m \in 1 .. Len(s) : \A n \in 1 .. Len(s) :
       m < n => \/ score(s[m]) > score(s[n])
                \/ score(s[m]) = score(s[n]) /\ s[m] < s[n]

\* C15: with N valid tasks the suggestion returns as top_tasks the first
\* min(3, N) tasks of their descending ranking in rank order, each with the
\* phrase of its rank (three different phrases) and with the blocking
\* suffix exactly when a valid task lists it as a dependency;
\* total_tasks_analyzed is N.
C15_TopThreeOfRanking ==
  (pc = "suggested" /\ KnownStrategy /\ Validation.validated_tasks # <<>>) =>
    LET valid == Validation.validated_tasks
        N == Len(valid)
        score(p) == calculate_final_score(tasks[p + 1], valid, strategy).final_score
    IN /\ res.status = 200
       /\ res.total_tasks_analyzed = N
       /\ Len(res.top_tasks) = Min(3, N)
       /\ \E s \in [1 .. N -> 0 .. (Len(tasks) - 1)] :
            /\ IsRanking(s, valid, score)
            /\ \A m \in 1 .. Len(res.top_tasks) : res.top_tasks[m].pos = s[m]
       /\ \A m \in 1 .. Len(res.top_tasks) :
            LET r == res.top_tasks[m].recommendation IN
            /\ r.phrase = <<"TOP PRIORITY", "Second priority", "Third priority">>[m]
            /\ r.blocking = (\E n \in 1 .. N : InDeps(res.top_tasks[m].id.v, valid[n]))


(***************************************************************************)
(* calculate_effort_score at the hour boundaries.  effort_formula(b, h) is *)
(* the expression of branch b of the function (lines 170, 175, 180, 185),  *)
(* taken at h hundredths of an hour whether or not the branch covers h.    *)
(***************************************************************************)
effort_formula(b, h) ==
  IF b = "Fast" THEN 9 * Pt - (h - 100) * 500
  ELSE IF b = "Moderate" THEN 75 * (Pt \div 10) - (h - 200) * 750
  ELSE IF b = "Substantial" THEN 55 * (Pt \div 10) - (h - 400) * 375
  ELSE Max(1 * Pt, 4 * Pt - (h - 800) * 200)

\* the branch that covers h >= 1 hour, and the branch after it
Covering(h) ==
  IF h <= 200 THEN "Fast" ELSE IF h <= 400 THEN "Moderate"
  ELSE IF h <= 800 THEN "Substantial" ELSE "Large"

NextBranch(h) ==
  IF h <= 200 THEN "Moderate" ELSE IF h <= 400 THEN "Substantial" ELSE "Large"

\* C21 as stated: at each of h = 2, 4, 8 the score (8.5, 6.0, 4.0) differs
\* from the value the next branch's formula gives at the same h.
C21_DiscontinuousAt248 ==
  pc = "returned" =>
    /\ arg[1].v = 200 => res[1].score = 85 * (Pt \div 10)
    /\ arg[1].v = 400 => res[1].score = 6 * Pt
    /\ arg[1].v = 800 => res[1].score = 4 * Pt
    /\ arg[1].v \in {200, 400, 800} =>
         res[1].score # effort_formula(NextBranch(arg[1].v), arg[1].v)

\* C21 as amended: from 1 hour on, the score is the value of the formula of
\* the covering branch; at h = 2 the score is 8.5 and the next branch's
\* formula gives 7.5, at h = 4 they are 6.0 and 5.5, at h = 8 both are 4.0:
\* the score jumps at 2 and at 4 hours and is continuous at 8 hours.
C21_JumpsAt2And4Only ==
  pc = "returned" =>
    /\ ~res[1].raised /\ ~res[2].raised
    /\ \A n \in 1 .. 2 :
         arg[n].v >= 100 => res[n].score = effort_formula(Covering(arg[n].v), arg[n].v)
    /\ arg[1].v = 200 => /\ res[1].score = 85 * (Pt \div 10)
                         /\ effort_formula("Moderate", 200) = 75 * (Pt \div 10)
    /\ arg[1].v = 400 => /\ res[1].score = 6 * Pt
                         /\ effort_formula("Substantial", 400) = 55 * (Pt \div 10)
    /\ arg[1].v = 800 => /\ res[1].score = 4 * Pt
                         /\ effort_formula("Large", 800) = 4 * Pt
    /\ (arg[1].v = 800 /\ arg[2].v = 801) => res[1].score - res[2].score = 200

\* 8 hours and 8.01 hours: 4.0 and 3.998
C21_Witness ==
  /\ pc = "returned"
  /\ arg[1].v = 800 /\ arg[2].v = 801
  /\ res[1].score = 4 * Pt
  /\ res[2].score = 399800


(***************************************************************************)
(* One task through validate_task_data and calculate_final_score, as in    *)
(* the loops of AnalyzeTasksView.post, with field values at the ends of    *)
(* the ranges and up to MaxBlockers tasks that list it as a dependency.    *)
(***************************************************************************)
BreakdownDays == {0 - 3, 0, 3, 7, 14, MaxDays}

BreakdownHours ==
  {V("float", 1), V("int", 100), V("int", 800), V("int", 100 * MaxHours),
   V("int", 0), V("str", 300)}

BreakdownRatings ==
  {V("int", 100), V("int", 1000), V("float", 150), V("float", 1090),
   V("int", 0), V("int", 100 * MaxRating), V("str", 500)}

BreakdownStrategies == StrategyChoices \cup {"BOGUS"}

InitBreakdown ==
  /\ pc = "call"
  /\ \E d \in BreakdownDays : \E h \in BreakdownHours : \E i \in BreakdownRatings :
       \E n \in 0 .. MaxBlockers : \E deps \in [1 .. n -> {Absent, IntList(<<1>>)}] :
         \E s \in BreakdownStrategies :
           arg = [task |-> MkTask(0, V("int", 1), V("str", 6), V("date", d), h, i, Absent),
                  all_tasks |-> Batch(n, deps),
                  strategy |-> s]
  /\ res = None
  /\ ReqIdle

CallBreakdown ==
  /\ pc = "call"
  /\ res' = [is_valid |-> validate_task_data(arg.task).is_valid,
             score_data |-> calculate_final_score(arg.task, arg.all_tasks, arg.strategy)]
  /\ pc' = "returned"
  /\ UNCHANGED <<arg, reqVars>>

NextBreakdown == CallBreakdown

SpecBreakdown == InitBreakdown /\ [][NextBreakdown]_vars

\* C22: for a task that passed validation, whatever the batch and the
\* strategy, the breakdown that scoring returns has urgency, importance and
\* effort in [1, 10] and dependency in [3, 10], and the final score is in
\* [0, 10].
C22_ScoresWithinRange ==
  (pc = "returned" /\ res.is_valid /\ ~res.score_data.raised) =>
    LET b == res.score_data.breakdown IN
    /\ 1 * Pt <= b.urgency /\ b.urgency <= 10 * Pt
    /\ 1 * Pt <= b.importance /\ b.importance <= 10 * Pt
    /\ 1 * Pt <= b.effort /\ b.effort <= 10 * Pt
    /\ 3 * Pt <= b.dependency /\ b.dependency <= 10 * Pt
    /\ 0 <= res.score_data.final_score /\ res.score_data.final_score <= 1000

\* a valid task at the floor of urgency and effort, listed by seven tasks
C22_Witness ==
  /\ pc = "returned"
  /\ res.is_valid
  /\ ~res.score_data.raised
  /\ Cardinality(Blocked(1, arg.all_tasks)) = 7
  /\ res.score_data.breakdown = [urgency |-> 1 * Pt, importance |-> 1 * Pt,
                                 effort |-> 1 * Pt, dependency |-> 10 * Pt]


=============================================================================
